---- MODULE Spec2Model ----
(***************************************************************************)
(* Model of EdgeBasedGeodesicSolver (src/EdgeBasedGeodesicSolver.cpp):     *)
(* solve() = load_input, normalize_mesh, init_bfs_paths,                   *)
(* gauss_seidel_init_gradients, prepare_integrate_geodesic_distance,       *)
(* compute_integrable_gradients, integrate_geodesic_distance.              *)
(*                                                                         *)
(* All arrays are functions on 0..n-1, as in the C++ code.  Floating-point *)
(* quantities are modelled by integers; a floating-point division is       *)
(* modelled by integer division (\div).                                    *)
(***************************************************************************)
EXTENDS Integers, Sequences, FiniteSets, TLC

\* ------------------------------------------------------------------ bounds
MaxSources == 2      \* longest source_vertices list drawn by Init
MaxHeatIter == 2     \* largest heat_solver_max_iter drawn by Init
MaxHeatFreq == 2     \* largest heat_solver_convergence_check_frequency
MaxGradIter == 2     \* largest grad_solver_max_iter drawn by Init
MaxGradFreq == 2     \* largest grad_solver_convergence_check_frequency
MaxZ == 1            \* number of extra target patterns Z drawn (0..MaxZ)

\* ------------------------------------------------------- the mesh adapter
(***************************************************************************)
(* The half-edge mesh (surface_mesh) is used through its queries only.     *)
(* A mesh file is a vertex count, the diagonal of its bounding box (diam)  *)
(* and a list of oriented triangles.  Edges are numbered in the order the  *)
(* faces introduce them; edge e owns the halfedges 2e (start -> end, as    *)
(* first introduced) and 2e+1.  Mesh file 0 is a file that cannot be read. *)
(***************************************************************************)
MeshFiles ==
  << [nv |-> 0, diam |-> 0, faces |-> << >>],
     [nv |-> 3, diam |-> 2, faces |-> << >>],
     [nv |-> 3, diam |-> 1, faces |-> << <<0, 1, 2>> >>],
     [nv |-> 4, diam |-> 2, faces |-> << <<0, 1, 2>>, <<0, 2, 3>> >>],
     [nv |-> 5, diam |-> 3,
      faces |-> << <<0, 1, 2>>, <<1, 3, 2>>, <<2, 3, 4>> >>],
     [nv |-> 4, diam |-> 2,
      faces |-> << <<0, 1, 2>>, <<0, 2, 3>>, <<0, 3, 1>>, <<1, 3, 2>> >>],
     [nv |-> 6, diam |-> 5,
      faces |-> << <<0, 1, 2>>, <<3, 4, 5>> >>] >>

NoMesh == [nv |-> 0, diam |-> 0, faces |-> << >>, edges |-> << >>,
           hface |-> << >>, fhalfedge |-> << >>, rings |-> << >>]

\* the directed vertex pair of corner j (0..2) of face f: v_j -> v_{j+1}
CornerPair(faces, f, j) == << faces[f + 1][j + 1], faces[f + 1][((j + 1) % 3) + 1] >>

RECURSIVE BuildEdges(_, _)
\* the edge list (start, end) after the first c corners were added
BuildEdges(faces, c) ==
  IF c = 0 THEN << >>
  ELSE LET es == BuildEdges(faces, c - 1)
           p == CornerPair(faces, (c - 1) \div 3, (c - 1) % 3)
       IN IF \E i \in 1..Len(es) : es[i] = p \/ es[i] = << p[2], p[1] >>
          THEN es ELSE Append(es, p)

EdgeFrom(edges, h) == edges[(h \div 2) + 1][(h % 2) + 1]
EdgeTo(edges, h) == edges[(h \div 2) + 1][2 - (h % 2)]

\* the face each halfedge belongs to, -1 for a boundary halfedge
BuildHalfedgeFaces(faces, edges) ==
  [h \in 0..(2 * Len(edges) - 1) |->
     LET F == { f \in 0..(Len(faces) - 1) : \E j \in 0..2 :
                  CornerPair(faces, f, j) = << EdgeFrom(edges, h), EdgeTo(edges, h) >> }
     IN IF F = {} THEN 0 - 1 ELSE CHOOSE f \in F : TRUE]

\* the k-th halfedge met when circulating around face f: the circulation
\* starts at the halfedge closing the face (v2 -> v0) and follows next_halfedge
BuildFaceHalfedges(faces, edges) ==
  [f \in 0..(Len(faces) - 1) |->
     [k \in 0..2 |->
        LET p == CornerPair(faces, f, (k + 2) % 3)
        IN CHOOSE h \in 0..(2 * Len(edges) - 1) :
              EdgeFrom(edges, h) = p[1] /\ EdgeTo(edges, h) = p[2]]]

RECURSIVE RingFrom(_, _, _, _)
\* n outgoing halfedges, circulating from h: the next one is the opposite of
\* the halfedge before h (in its face, or in its boundary loop)
RingFrom(edges, hface, h, n) ==
  IF n = 0 THEN << >>
  ELSE LET prev == CHOOSE g \in 0..(2 * Len(edges) - 1) :
                      EdgeTo(edges, g) = EdgeFrom(edges, h) /\ hface[g] = hface[h]
           opp == IF prev % 2 = 0 THEN prev + 1 ELSE prev - 1
       IN << h >> \o RingFrom(edges, hface, opp, n - 1)

\* halfedges(v): the outgoing halfedges of v in circulation order, starting
\* at the halfedge stored at v: a boundary halfedge if there is one
BuildRings(nv, edges, hface) ==
  [v \in 0..(nv - 1) |->
     LET out == { h \in 0..(2 * Len(edges) - 1) : EdgeFrom(edges, h) = v }
         bnd == { h \in out : hface[h] = 0 - 1 }
         first == IF bnd # {} THEN CHOOSE h \in bnd : TRUE
                  ELSE CHOOSE h \in out : \A g \in out : h <= g
     IN IF out = {} THEN << >> ELSE RingFrom(edges, hface, first, Cardinality(out))]

\* surface_mesh::read_mesh on a readable file
ReadMesh(file) ==
  LET faces == MeshFiles[file].faces
      edges == BuildEdges(faces, 3 * Len(faces))
      hface == BuildHalfedgeFaces(faces, edges)
  IN [ nv |-> MeshFiles[file].nv, diam |-> MeshFiles[file].diam, faces |-> faces,
       edges |-> edges, hface |-> hface,
       fhalfedge |-> BuildFaceHalfedges(faces, edges),
       rings |-> BuildRings(MeshFiles[file].nv, edges, hface) ]

\* the queries of the mesh
NumV(m) == m.nv
NumF(m) == Len(m.faces)
NumE(m) == Len(m.edges)
NumH(m) == 2 * Len(m.edges)
from_vertex(m, h) == EdgeFrom(m.edges, h)
to_vertex(m, h) == EdgeTo(m.edges, h)
opposite_halfedge(m, h) == IF h % 2 = 0 THEN h + 1 ELSE h - 1
edge(h) == h \div 2
halfedge(e, i) == 2 * e + i
face(m, h) == m.hface[h]
is_boundary(m, h) == m.hface[h] = 0 - 1
FaceHalfedge(m, f, k) == m.fhalfedge[f][k]
halfedges(m, v) == m.rings[v]
valence(m, v) == Len(m.rings[v])

\* is every vertex joined to vertex 0 by a path of edges?
RECURSIVE ReachedFrom(_, _)
ReachedFrom(m, R) ==
  LET R2 == R \cup { to_vertex(m, h) : h \in { g \in 0..(NumH(m) - 1) : from_vertex(m, g) \in R } }
  IN IF R2 = R THEN R ELSE ReachedFrom(m, R2)

IsConnected(m) == NumV(m) > 0 /\ ReachedFrom(m, {0}) = 0..(NumV(m) - 1)

\* ------------------------------------------------------------- the state
VARIABLES
  mesh_file,                \* solve's argument: 0 (unreadable) or a mesh file
  param,                    \* the Parameters record
  pc,                       \* the statement of solve() that runs next
  result,                   \* "none" while running, then what solve() returned
  mesh,                     \* the half-edge mesh (NoMesh: none)
  n_vertices, n_faces, n_edges,
  model_scaling_factor,
  bfs_vertex_list, transition_halfedge_idx,
  bfs_laplacian_coef_addr, bfs_segment_addr,
  bfs_laplacian_coef,       \* j |-> << vertex, weight >>
  init_source_val, eps,     \* eps holds (2 * threshold)^2
  current_d, temp_d,
  gs_iter, segment_count, n_segments, end_gs_loop,
  init_grad,                \* f |-> k |-> init_grad.col(f) . (from - to) of halfedge k
  gs_computed,              \* the positions of the layer whose new value is in temp_d
  gs_written,               \* the positions of the layer written back to current_d
  heat_before,              \* history: current_d when the layer step began
  layer_sweeps,             \* history: how often each layer was swept
  residual_history,         \* history: was the residual <= eps after g sweeps
  transition_from_vtx, transition_edge_idx,
  Z, S, Q,                  \* indexed by the face-corner slot 3f+k
  edges_Y_index,            \* j |-> e |-> slot
  X, Y, D,
  SX,                       \* the two buffers SX1 and SX2
  current_SX, prev_SX,      \* which buffer each pointer designates
  primal_residual_sqr_norm_threshold, dual_residual_sqr_norm_threshold,
  iter_num, need_compute_residual_norms,
  primal_residual_sqr_norm, dual_residual_sqr_norm,
  optimization_converge, optimization_end,
  integrate_segment_count,  \* segment_count of integrate_geodesic_distance
  end_propagation,
  assigned,                 \* the positions of the layer already assigned
  write_count,              \* history: how often each distance was assigned
  geod_dist_values

inputVars == << mesh_file, param >>
meshVars == << mesh, n_vertices, n_faces, n_edges >>
bfsVars == << bfs_vertex_list, transition_halfedge_idx,
              bfs_laplacian_coef_addr, bfs_segment_addr >>

gsVars == << bfs_laplacian_coef, init_source_val, eps, current_d, temp_d,
             gs_iter, segment_count, n_segments, end_gs_loop, init_grad,
             gs_computed, gs_written, heat_before, layer_sweeps,
             residual_history >>

prepVars == << transition_from_vtx, transition_edge_idx, Z, S, Q, edges_Y_index,
               primal_residual_sqr_norm_threshold,
               dual_residual_sqr_norm_threshold >>
admmVars == << X, Y, D, SX, current_SX, prev_SX, iter_num,
               need_compute_residual_norms, primal_residual_sqr_norm,
               dual_residual_sqr_norm, optimization_converge, optimization_end >>
distVars == << integrate_segment_count, end_propagation, assigned, write_count,
               geod_dist_values >>

vars == << inputVars, pc, result, meshVars, model_scaling_factor, bfsVars,
           gsVars, prepVars, admmVars, distVars >>

\* a vector of n entries, all x
Constant(n, x) == [i \in 0..(n - 1) |-> x]

\* the elements of a sequence
Range(s) == { s[i] : i \in 1..Len(s) }

IsDistinct(s) == \A i, j \in 1..Len(s) : i # j => s[i] # s[j]

\* ----------------------------------------------------------------- inputs
\* the source lists Init draws for a mesh file: in range, out of range, repeated
SourceLists(f) ==
  LET nv == IF f = 0 THEN 0 ELSE MeshFiles[f].nv
  IN UNION { [1..k -> (0 - 1)..nv] : k \in 1..MaxSources }

BaseParam(src) ==
  [ source_vertices |-> src,
    heat_solver_eps |-> 1,
    heat_solver_max_iter |-> 1,
    heat_solver_convergence_check_frequency |-> 1,
    grad_solver_eps |-> 2,
    grad_solver_max_iter |-> 1,
    grad_solver_convergence_check_frequency |-> 1,
    penalty |-> 1 ]

HeatEpsChoices == { 0, 1, 2 }    \* heat_solver_eps, in halves

GradEpsChoices == { 0, 2, 1000 }   \* grad_solver_eps

\* the parameter records Init draws: every source list with the base
\* parameters, and with a single source every setting of the heat solver
\* and every setting of the gradient solver
ParamChoices(src) ==
  { BaseParam(src) }
  \cup { [BaseParam(src) EXCEPT !.heat_solver_eps = he,
                                !.heat_solver_max_iter = hm,
                                !.heat_solver_convergence_check_frequency = hf] :
           he \in IF Len(src) = 1 THEN HeatEpsChoices ELSE {},
           hm \in 0..MaxHeatIter, hf \in 1..MaxHeatFreq }
  \cup { [BaseParam(src) EXCEPT !.grad_solver_eps = ge,
                                !.grad_solver_max_iter = gm,
                                !.grad_solver_convergence_check_frequency = gf] :
           ge \in IF Len(src) = 1 THEN GradEpsChoices ELSE {},
           gm \in 0..MaxGradIter, gf \in 1..MaxGradFreq }

\* EdgeBasedGeodesicSolver() followed by the entry of solve(mesh_file, para)
Init ==
  /\ mesh_file \in 0..Len(MeshFiles)
  /\ \E src \in SourceLists(mesh_file) : param \in ParamChoices(src)
  /\ pc = "load_input"
  /\ result = "none"
  /\ mesh = NoMesh
  /\ n_vertices = 0 /\ n_faces = 0 /\ n_edges = 0
  /\ model_scaling_factor = 1
  /\ bfs_vertex_list = << >> /\ transition_halfedge_idx = << >>
  /\ bfs_laplacian_coef_addr = << >> /\ bfs_segment_addr = << >>
  /\ bfs_laplacian_coef = << >>
  /\ init_source_val = 0 /\ eps = 0
  /\ current_d = << >> /\ temp_d = << >>
  /\ gs_iter = 0 /\ segment_count = 0 /\ n_segments = 0
  /\ end_gs_loop = FALSE
  /\ init_grad = << >>
  /\ gs_computed = {} /\ gs_written = {} /\ heat_before = << >>
  /\ layer_sweeps = << >> /\ residual_history = << >>
  /\ transition_from_vtx = << >> /\ transition_edge_idx = << >>
  /\ Z = << >> /\ S = << >> /\ Q = << >> /\ edges_Y_index = << >>
  /\ X = << >> /\ Y = << >> /\ D = << >>
  /\ SX = [SX1 |-> << >>, SX2 |-> << >>]
  /\ current_SX = "NULL" /\ prev_SX = "NULL"
  /\ primal_residual_sqr_norm_threshold = 0
  /\ dual_residual_sqr_norm_threshold = 0
  /\ iter_num = 0 /\ need_compute_residual_norms = FALSE
  /\ primal_residual_sqr_norm = 0 /\ dual_residual_sqr_norm = 0
  /\ optimization_converge = FALSE /\ optimization_end = FALSE
  /\ integrate_segment_count = 0 /\ end_propagation = FALSE
  /\ assigned = {} /\ write_count = << >>
  /\ geod_dist_values = << >>

\* ------------------------------------------------------------- load_input
\* SourcesInRange with the upper limit off by one
SourcesInRangeOffByOne(src, nv) ==
  \A i \in 1..Len(src) : ~ (src[i] < 0 \/ src[i] > nv)

\* the loop of load_input over the source indices: is each one in [0, nv)?
SourcesInRange(src, nv) ==
  \A i \in 1..Len(src) : ~ (src[i] < 0 \/ src[i] >= nv)

\* load_input's return value once the mesh m is read
LoadOk(m, src) ==
  /\ ~ (NumV(m) = 0 \/ NumF(m) = 0 \/ NumE(m) = 0)
  /\ SourcesInRange(src, NumV(m))

LoadInput ==
  /\ pc = "load_input"
  /\ IF mesh_file = 0
     THEN /\ pc' = "failed" /\ result' = "false"
          /\ UNCHANGED meshVars
     ELSE \E m \in { ReadMesh(mesh_file) } :
          /\ mesh' = m
          /\ n_vertices' = NumV(m)
          /\ n_faces' = NumF(m)
          /\ n_edges' = NumE(m)
          /\ IF LoadOk(m, param.source_vertices)
             THEN pc' = "normalize_mesh" /\ result' = "none"
             ELSE pc' = "failed" /\ result' = "false"
  /\ UNCHANGED << inputVars, model_scaling_factor, bfsVars, gsVars, prepVars,
                  admmVars, distVars >>

\* --------------------------------------------------------- normalize_mesh
NormalizeMesh ==
  /\ pc = "normalize_mesh"
  /\ model_scaling_factor' = mesh.diam
  /\ pc' = "init_bfs_paths"
  /\ UNCHANGED << inputVars, result, meshVars, bfsVars, gsVars, prepVars, admmVars,
                  distVars >>

\* --------------------------------------------------------- init_bfs_paths
(***************************************************************************)
(* The traversal state: visited, the arrays being filled (list, trans,     *)
(* lap), the write position id, the front being collected, and ub: a write *)
(* past the end of an array has happened (undefined behaviour).  An entry  *)
(* of lap that resize() left unset is shown as -1.                         *)
(***************************************************************************)
BfsStart(nv) ==
  [ visited |-> {}, list |-> Constant(nv, 0 - 1), trans |-> Constant(nv, 0 - 1),
    lap |-> [i \in 0..nv |-> IF i = 0 THEN 0 ELSE 0 - 1],
    id |-> 0, next_front |-> << >>, ub |-> FALSE ]

\* one turn of the loop over the sources (lines 140-146)
StoreSource(m, nv, st, v) ==
  IF st.ub \/ st.id >= nv
  THEN [st EXCEPT !.ub = TRUE]
  ELSE [st EXCEPT !.visited = @ \cup {v},
                  !.list[st.id] = v,
                  !.lap[st.id + 1] = st.lap[st.id] + valence(m, v) + 1,
                  !.id = @ + 1]

RECURSIVE StoreSources(_, _, _, _, _)
StoreSources(m, nv, st, src, k) ==
  IF k > Len(src) THEN st
  ELSE StoreSources(m, nv, StoreSource(m, nv, st, src[k]), src, k + 1)

\* VisitHalfedge without "visited[next_v] = true"
VisitHalfedgeNoMark(m, nv, st, heh) ==
  LET next_v == to_vertex(m, heh)
  IN IF st.ub THEN st
     ELSE IF next_v \notin st.visited
     THEN IF st.id >= nv
          THEN [st EXCEPT !.ub = TRUE]
          ELSE [st EXCEPT !.next_front = Append(@, next_v),
                          !.list[st.id] = next_v,
                          !.lap[st.id + 1] = st.lap[st.id] + valence(m, next_v) + 1,
                          !.trans[st.id] = heh,
                          !.id = @ + 1]
     ELSE st

\* VisitHalfedge recording the halfedge that leaves the new vertex
VisitHalfedgeOpposite(m, nv, st, heh) ==
  LET next_v == to_vertex(m, heh)
      st1 == IF next_v \notin st.visited
             THEN IF st.id >= nv
                  THEN [st EXCEPT !.ub = TRUE]
                  ELSE [st EXCEPT !.next_front = Append(@, next_v),
                                  !.list[st.id] = next_v,
                                  !.lap[st.id + 1] =
                                      st.lap[st.id] + valence(m, next_v) + 1,
                                  !.trans[st.id] = opposite_halfedge(m, heh),
                                  !.id = @ + 1]
             ELSE st
  IN IF st.ub THEN st ELSE [st1 EXCEPT !.visited = @ \cup {next_v}]

\* the body of the do-while over the halfedges around a front vertex
\* (lines 157-174)
VisitHalfedge(m, nv, st, heh) ==
  LET next_v == to_vertex(m, heh)
      st1 == IF next_v \notin st.visited
             THEN IF st.id >= nv
                  THEN [st EXCEPT !.ub = TRUE]
                  ELSE [st EXCEPT !.next_front = Append(@, next_v),
                                  !.list[st.id] = next_v,
                                  !.lap[st.id + 1] =
                                      st.lap[st.id] + valence(m, next_v) + 1,
                                  !.trans[st.id] = heh,
                                  !.id = @ + 1]
             ELSE st
  IN IF st.ub THEN st ELSE [st1 EXCEPT !.visited = @ \cup {next_v}]

RECURSIVE VisitRing(_, _, _, _, _)
VisitRing(m, nv, st, ring, i) ==
  IF i > Len(ring) THEN st
  ELSE VisitRing(m, nv, VisitHalfedge(m, nv, st, ring[i]), ring, i + 1)

RECURSIVE VisitFront(_, _, _, _, _)
\* the for loop over current_front
VisitFront(m, nv, st, front, k) ==
  IF k > Len(front) THEN st
  ELSE VisitFront(m, nv, VisitRing(m, nv, st, halfedges(m, front[k]), 1), front, k + 1)

RECURSIVE BfsLayers(_, _, _, _, _)
\* the while loop over the fronts; segs is bfs_segment_addr_vec
BfsLayers(m, nv, st, front, segs) ==
  IF st.ub \/ front = << >> THEN [st |-> st, segs |-> segs]
  ELSE LET st2 == VisitFront(m, nv, [st EXCEPT !.next_front = << >>], front, 1)
       IN BfsLayers(m, nv, st2, st2.next_front,
                    Append(segs, segs[Len(segs)] + Len(st2.next_front)))

BfsRun(m, nv, src) ==
  BfsLayers(m, nv, StoreSources(m, nv, BfsStart(nv), src, 1), src, << 0, Len(src) >>)

InitBfsPaths ==
  /\ pc = "init_bfs_paths"
  /\ LET r == BfsRun(mesh, n_vertices, param.source_vertices)
     IN /\ bfs_vertex_list' = r.st.list
        /\ transition_halfedge_idx' = r.st.trans
        /\ bfs_laplacian_coef_addr' = r.st.lap
        /\ bfs_segment_addr' = [i \in 0..(Len(r.segs) - 1) |-> r.segs[i + 1]]
        /\ pc' = IF r.st.ub THEN "undefined" ELSE "gauss_seidel_init_gradients"
  /\ UNCHANGED << inputVars, result, meshVars, model_scaling_factor, gsVars,
                  prepVars, admmVars, distVars >>

\* ---------------------------------------------- gauss_seidel_init_gradients
RECURSIVE SeqSum(_)
SeqSum(q) == IF q = << >> THEN 0 ELSE q[1] + SeqSum(Tail(q))

RECURSIVE SqrtBetween(_, _, _)
\* the largest k in lo..hi with k * k <= x
SqrtBetween(x, lo, hi) ==
  IF lo = hi THEN lo
  ELSE LET mid == (lo + hi + 1) \div 2
       IN IF mid * mid <= x THEN SqrtBetween(x, mid, hi)
          ELSE SqrtBetween(x, lo, mid - 1)

\* std::sqrt, rounded down
Sqrt(x) == SqrtBetween(x, 0, 1000)

Min(a, b) == IF a <= b THEN a ELSE b

(***************************************************************************)
(* Geometry.  The model has no coordinates: every triangle is taken to be  *)
(* the same equilateral one, of area 3, whose half-cotangents are 1, and   *)
(* step_length is 1.  halfedge_halfcot is zero on a boundary halfedge,     *)
(* which no face sets.                                                     *)
(***************************************************************************)
halfedge_halfcot(m, h) == IF is_boundary(m, h) THEN 0 ELSE 1

face_area(m, f) == 3

\* vertex_A = (sum of the areas of the faces around v) / 3
vertex_area(m, v) ==
  LET ring == halfedges(m, v)
  IN SeqSum([k \in 1..Len(ring) |->
               IF is_boundary(m, ring[k]) THEN 0 ELSE face_area(m, face(m, ring[k]))]) \div 3

\* the (vertex, weight) pairs of vertex v: its neighbours in circulation
\* order, then v itself with the sum of the weights plus its area
LaplacianRow(m, v) ==
  LET ring == halfedges(m, v)
      nb == [k \in 1..Len(ring) |->
               << to_vertex(m, ring[k]),
                  halfedge_halfcot(m, ring[k])
                    + halfedge_halfcot(m, opposite_halfedge(m, ring[k])) >>]
  IN Append(nb, << v, SeqSum([k \in 1..Len(nb) |-> nb[k][2]]) + vertex_area(m, v) >>)

\* the array bfs_laplacian_coef, rows in BFS order
LaplacianCoef(m, nv, list, lap) ==
  [j \in 0..(lap[nv] - 1) |->
     LET i == CHOOSE p \in 0..(nv - 1) : lap[p] <= j /\ j < lap[p + 1]
     IN LaplacianRow(m, list[i])[j - lap[i] + 1]]

\* init_source_val, in hundredths
InitSourceVal(m, nv, src) ==
  LET total == SeqSum([v \in 1..nv |-> vertex_area(m, v - 1)])
      total_source_area == SeqSum([k \in 1..Len(src) |-> vertex_area(m, src[k])])
  IN Sqrt(Min((10000 * nv) \div Len(src), (10000 * total) \div total_source_area))

\* the source term of the residual also given to position |sources|
ResidualSourceTermOffByOne(alpha, ns, i) == IF i <= ns THEN alpha ELSE 0

\* the source term compute_heatflow_residual gives BFS position i
\* (lines 546-549)
ResidualSourceTerm(alpha, ns, i) == IF i < ns THEN alpha ELSE 0

\* the source term the sweep gives the positions of layer seg (lines 431-434)
SweepSourceTerm(alpha, seg) == IF seg = 0 THEN alpha ELSE 0

\* compute_heatflow_residual: the residual at BFS position i
HeatflowResidual(coef, lap, ns, alpha, heat_values, i) ==
  LET b == lap[i]
      e == lap[i + 1]
  IN ResidualSourceTerm(alpha, ns, i)
     + SeqSum([j \in 1..(e - b) |->
          heat_values[coef[b + j - 1][1]] * coef[b + j - 1][2]
            * (IF b + j - 1 = e - 1 THEN 0 - 1 ELSE 1)])

\* heatflow_residuals.norm(), squared
ResidualSqrNorm(coef, lap, nv, ns, alpha, heat_values) ==
  SeqSum([k \in 1..nv |->
     LET r == HeatflowResidual(coef, lap, ns, alpha, heat_values, k - 1) IN r * r])

\* residual_norm <= eps, both sides squared and scaled by 2^2
ResidualSmall(coef, lap, nv, ns, alpha, heat_values, e) ==
  4 * ResidualSqrNorm(coef, lap, nv, ns, alpha, heat_values) <= e

\* the set-up block of gauss_seidel_init_gradients (lines 240-414)
GaussSeidelSetup ==
  /\ pc = "gauss_seidel_init_gradients"
  /\ IF \E i \in 0..(n_vertices - 1) : bfs_vertex_list[i] = 0 - 1
     THEN \* MeshType::Vertex(-1) is handed to the mesh
          /\ pc' = "undefined"
          /\ UNCHANGED gsVars
     ELSE LET coef == LaplacianCoef(mesh, n_vertices, bfs_vertex_list,
                                    bfs_laplacian_coef_addr)
              alpha == InitSourceVal(mesh, n_vertices, param.source_vertices)
              d0 == [v \in 0..(n_vertices - 1) |->
                       IF v \in Range(param.source_vertices) THEN alpha ELSE 0]
              nseg == Cardinality(DOMAIN bfs_segment_addr) - 1
              buffer_size ==
                 CHOOSE w \in 0..n_vertices :
                    /\ \E s \in 0..(nseg - 1) :
                          w = bfs_segment_addr[s + 1] - bfs_segment_addr[s]
                    /\ \A s \in 0..(nseg - 1) :
                          w >= bfs_segment_addr[s + 1] - bfs_segment_addr[s]
              init_sq == ResidualSqrNorm(coef, bfs_laplacian_coef_addr, n_vertices,
                                         Len(param.source_vertices), alpha, d0)
              e0 == init_sq * param.heat_solver_eps * param.heat_solver_eps
          IN /\ bfs_laplacian_coef' = coef
             /\ init_source_val' = alpha
             /\ current_d' = d0
             /\ n_segments' = nseg
             /\ temp_d' = Constant(buffer_size, 0)
             /\ eps' = e0
             /\ gs_iter' = 0 /\ segment_count' = 0 /\ end_gs_loop' = FALSE
             /\ gs_computed' = {} /\ gs_written' = {} /\ heat_before' = d0
             /\ layer_sweeps' = Constant(nseg, 0)
             /\ residual_history' =
                  << ResidualSmall(coef, bfs_laplacian_coef_addr, n_vertices,
                                   Len(param.source_vertices), alpha, d0, e0) >>
             /\ UNCHANGED init_grad
             /\ pc' = "gauss_seidel_loop"
  /\ UNCHANGED << inputVars, result, meshVars, model_scaling_factor, bfsVars,
                  prepVars, admmVars, distVars >>

\* the new heat value of BFS position i in a sweep of layer seg (lines 428-442)
NewHeatValue(coef, lap, alpha, d, seg, i) ==
  LET b == lap[i]
      e == lap[i + 1]
  IN (SweepSourceTerm(alpha, seg)
      + SeqSum([j \in 1..(e - 1 - b) |->
           d[coef[b + j - 1][1]] * coef[b + j - 1][2]]))
     \div coef[e - 1][2]

\* the positions of the layer the sweep is at (lines 422-423)
SweepLayer ==
  bfs_segment_addr[segment_count]..(bfs_segment_addr[segment_count + 1] - 1)

\* the write-back not waiting for the computing loop
ComputeDoneNoBarrier(done, layer) == TRUE

\* the end of the computing loop: every thread has computed its positions
\* before any goes on to the write-back (lines 426-445)
ComputeDone(done, layer) == \A i \in layer : i \in done

\* one turn of the computing loop of a layer step (lines 427-443); the
\* turns of a layer run in any order
GaussSeidelCompute ==
  /\ pc = "gauss_seidel_loop"
  /\ ~ end_gs_loop
  /\ \E i \in SweepLayer :
        /\ i \notin gs_computed
        /\ temp_d' = [temp_d EXCEPT ![i - bfs_segment_addr[segment_count]] =
                        NewHeatValue(bfs_laplacian_coef, bfs_laplacian_coef_addr,
                                     init_source_val, current_d, segment_count, i)]
        /\ gs_computed' = gs_computed \cup {i}
  /\ UNCHANGED << bfs_laplacian_coef, init_source_val, eps, current_d, gs_iter,
                  segment_count, n_segments, end_gs_loop, init_grad, gs_written,
                  heat_before, layer_sweeps, residual_history >>
  /\ UNCHANGED << inputVars, pc, result, meshVars, model_scaling_factor, bfsVars,
                  prepVars, admmVars, distVars >>

\* one turn of the write-back loop of a layer step (lines 446-448); the
\* turns of a layer run in any order
GaussSeidelWriteBack ==
  /\ pc = "gauss_seidel_loop"
  /\ ~ end_gs_loop
  /\ ComputeDone(gs_computed, SweepLayer)
  /\ \E i \in SweepLayer :
        /\ i \notin gs_written
        /\ current_d' = [current_d EXCEPT ![bfs_vertex_list[i]] =
                           temp_d[i - bfs_segment_addr[segment_count]]]
        /\ gs_written' = gs_written \cup {i}
  /\ UNCHANGED << bfs_laplacian_coef, init_source_val, eps, temp_d, gs_iter,
                  segment_count, n_segments, end_gs_loop, init_grad, gs_computed,
                  heat_before, layer_sweeps, residual_history >>
  /\ UNCHANGED << inputVars, pc, result, meshVars, model_scaling_factor, bfsVars,
                  prepVars, admmVars, distVars >>

\* the single block that ends a layer step and the residual check
\* (lines 450-482)
GaussSeidelNextLayer ==
  /\ pc = "gauss_seidel_loop"
  /\ ~ end_gs_loop
  /\ \A i \in SweepLayer : i \in gs_computed /\ i \in gs_written
  /\ LET reset_iter == (segment_count + 1 = n_segments)
         g == IF reset_iter THEN gs_iter + 1 ELSE gs_iter
         reached == g >= param.heat_solver_max_iter
         need_check_residual ==
            reached \/ (reset_iter
                        /\ g % param.heat_solver_convergence_check_frequency = 0)
         small == ResidualSmall(bfs_laplacian_coef, bfs_laplacian_coef_addr,
                                n_vertices, Len(param.source_vertices),
                                init_source_val, current_d, eps)
     IN /\ segment_count' = IF reset_iter THEN 0 ELSE segment_count + 1
        /\ gs_iter' = g
        /\ end_gs_loop' = (reached \/ (need_check_residual /\ small))
        /\ layer_sweeps' = [layer_sweeps EXCEPT ![segment_count] = @ + 1]
        /\ residual_history' =
             IF reset_iter THEN Append(residual_history, small) ELSE residual_history
  /\ gs_computed' = {} /\ gs_written' = {}
  /\ heat_before' = current_d
  /\ UNCHANGED << bfs_laplacian_coef, init_source_val, eps, current_d, temp_d,
                  n_segments, init_grad >>
  /\ UNCHANGED << inputVars, pc, result, meshVars, model_scaling_factor, bfsVars,
                  prepVars, admmVars, distVars >>

\* one turn of the loop "while (!end_gs_loop)" (lines 416-484)
GaussSeidelStep ==
  \/ GaussSeidelCompute
  \/ GaussSeidelWriteBack
  \/ GaussSeidelNextLayer

\* the initial gradient of face f against the edge vector from - to of the
\* k-th halfedge of f: the heat falls along the gradient; z is the part of
\* the normalised gradient that no vertex function explains
InitGrad(m, d, z, f, k) ==
  LET h == FaceHalfedge(m, f, k)
  IN d[to_vertex(m, h)] - d[from_vertex(m, h)] + z * (k + 1)

\* the end of gauss_seidel_init_gradients (lines 486-535)
GaussSeidelFinish ==
  /\ pc = "gauss_seidel_loop"
  /\ end_gs_loop
  /\ \E z \in 0..MaxZ :
        init_grad' = [f \in 0..(n_faces - 1) |->
                        [k \in 0..2 |-> InitGrad(mesh, current_d, z, f, k)]]
  /\ temp_d' = << >>
  /\ bfs_laplacian_coef' = << >>
  /\ bfs_laplacian_coef_addr' = << >>
  /\ pc' = "prepare_integrate_geodesic_distance"
  /\ UNCHANGED << init_source_val, eps, current_d, gs_iter, segment_count,
                  n_segments, end_gs_loop, gs_computed, gs_written, heat_before,
                  layer_sweeps, residual_history >>
  /\ UNCHANGED << inputVars, result, meshVars, model_scaling_factor,
                  bfs_vertex_list, transition_halfedge_idx, bfs_segment_addr,
                  prepVars, admmVars, distVars >>

\* ------------------------------------ prepare_integrate_geodesic_distance
Slots == 0..(3 * n_faces - 1)

\* edges_Y_index(num_rows(edge_index), edge_index) = slot, without the ++
RegisterSlotNoIncrement(st, edge_index, slot) ==
  [st EXCEPT !.index[st.num_rows[edge_index]][edge_index] = slot]

\* edges_Y_index(num_rows(edge_index)++, edge_index) = slot (line 601)
RegisterSlot(st, edge_index, slot) ==
  [st EXCEPT !.index[st.num_rows[edge_index]][edge_index] = slot,
             !.num_rows[edge_index] = @ + 1]

RECURSIVE RegisterSlots(_, _, _)
\* the serial pass over the faces and their halfedges (lines 578-605)
RegisterSlots(st, edges_of_slot, slot) ==
  IF slot \notin DOMAIN edges_of_slot THEN st
  ELSE RegisterSlots(RegisterSlot(st, edges_of_slot[slot], slot), edges_of_slot, slot + 1)

\* the end of the transition halfedge taken as the parent
TransitionFromChild(m, heh) == to_vertex(m, heh)

\* the parent of a transition halfedge (lines 613-615)
TransitionFrom(m, heh) == from_vertex(m, heh)

\* the signed edge reference of a transition halfedge (lines 617-621)
TransitionEdge(heh) ==
  IF heh = halfedge(edge(heh), 0) THEN 0 - edge(heh) - 1 ELSE edge(heh)

\* X(i) of the initialisation (lines 649-661): the mean of Z over the slots of i
InitialX(index, z, i) ==
  LET used == { j \in 0..1 : index[j][i] >= 0 }
  IN SeqSum([j \in 1..2 |-> IF index[j - 1][i] >= 0 THEN z[index[j - 1][i]] ELSE 0])
     \div Cardinality(used)

\* S applied to x: the entry of x of the edge of every slot
SOf(s_idx, x) == [slot \in DOMAIN s_idx |-> x[s_idx[slot]]]

PrepareIntegrateGeodesicDistance ==
  /\ pc = "prepare_integrate_geodesic_distance"
  /\ LET s_idx == [slot \in Slots |->
                     edge(FaceHalfedge(mesh, slot \div 3, slot % 3))]
         q == [slot \in Slots |->
                 IF FaceHalfedge(mesh, slot \div 3, slot % 3) = halfedge(s_idx[slot], 0)
                 THEN 1 ELSE 0 - 1]
         z == [slot \in Slots |-> q[slot] * init_grad[slot \div 3][slot % 3]]
         reg == RegisterSlots([ index |-> [j \in 0..1 |-> Constant(n_edges, 0 - 1)],
                                num_rows |-> Constant(n_edges, 0) ], s_idx, 0)
         x == [i \in 0..(n_edges - 1) |-> InitialX(reg.index, z, i)]
     IN /\ S' = s_idx /\ Q' = q /\ Z' = z
        /\ edges_Y_index' = reg.index
        /\ X' = x
        /\ SX' = [SX1 |-> Constant(3 * n_faces, 0), SX2 |-> SOf(s_idx, x)]
  /\ transition_from_vtx' =
       [i \in 0..(n_vertices - 1) |->
          IF transition_halfedge_idx[i] >= 0
          THEN TransitionFrom(mesh, transition_halfedge_idx[i]) ELSE 0 - 1]
  /\ transition_edge_idx' =
       [i \in 0..(n_vertices - 1) |->
          IF transition_halfedge_idx[i] >= 0
          THEN TransitionEdge(transition_halfedge_idx[i]) ELSE 0 - 1]
  /\ mesh' = NoMesh
  /\ transition_halfedge_idx' = << >>
  /\ init_grad' = << >>
  /\ D' = Constant(3 * n_faces, 0)
  /\ Y' = Constant(3 * n_faces, 0)
  /\ current_SX' = "SX1" /\ prev_SX' = "SX2"
  /\ primal_residual_sqr_norm_threshold' = param.grad_solver_eps * param.grad_solver_eps
  /\ dual_residual_sqr_norm_threshold' = param.grad_solver_eps * param.grad_solver_eps
  /\ pc' = "compute_integrable_gradients"
  /\ UNCHANGED << inputVars, result, n_vertices, n_faces, n_edges,
                  model_scaling_factor, bfs_vertex_list, bfs_laplacian_coef_addr,
                  bfs_segment_addr, bfs_laplacian_coef, init_source_val, eps,
                  current_d, temp_d, gs_iter, segment_count, n_segments,
                  end_gs_loop, gs_computed, gs_written, heat_before,
                  layer_sweeps, residual_history, iter_num,
                  need_compute_residual_norms, primal_residual_sqr_norm,
                  dual_residual_sqr_norm, optimization_converge, optimization_end,
                  distVars >>

\* ------------------------------------------ compute_integrable_gradients
\* the entry of compute_integrable_gradients (lines 674-675)
ComputeIntegrableGradients ==
  /\ pc = "compute_integrable_gradients"
  /\ optimization_end' = FALSE
  /\ iter_num' = 0
  /\ pc' = "update_Y"
  /\ UNCHANGED << inputVars, result, meshVars, model_scaling_factor, bfsVars,
                  gsVars, prepVars, X, Y, D, SX, current_SX, prev_SX,
                  need_compute_residual_norms, primal_residual_sqr_norm,
                  dual_residual_sqr_norm, optimization_converge, distVars >>

\* y = prev_SX - D at the slot
YArg(sx, d, slot) == sx[slot] - d[slot]

\* Y of a slot of face i: y - 1/3 (q . y) q  (lines 728-730)
NewY(sx, d, q, slot) ==
  LET i == slot \div 3
      dot == SeqSum([k \in 1..3 |-> q[3 * i + k - 1] * YArg(sx, d, 3 * i + k - 1)])
  IN YArg(sx, d, slot) - (dot \div 3) * q[slot]

UpdateY ==
  /\ pc = "update_Y"
  /\ Y' = [slot \in Slots |-> NewY(SX[prev_SX], D, Q, slot)]
  /\ pc' = "update_X"
  /\ UNCHANGED << inputVars, result, meshVars, model_scaling_factor, bfsVars,
                  gsVars, prepVars, X, D, SX, current_SX, prev_SX, iter_num,
                  need_compute_residual_norms, primal_residual_sqr_norm,
                  dual_residual_sqr_norm, optimization_converge, optimization_end,
                  distVars >>

\* X of edge i (lines 737-747)
NewX(index, penalty, y, d, z, i) ==
  LET used == { j \in 0..1 : index[j][i] >= 0 }
      r == SeqSum([j \in 1..2 |->
              IF index[j - 1][i] >= 0
              THEN penalty * (y[index[j - 1][i]] + d[index[j - 1][i]])
                     + z[index[j - 1][i]]
              ELSE 0])
  IN r \div ((penalty + 1) * Cardinality(used))

UpdateX ==
  /\ pc = "update_X"
  /\ X' = [i \in 0..(n_edges - 1) |-> NewX(edges_Y_index, param.penalty, Y, D, Z, i)]
  /\ pc' = "update_dual_variables"
  /\ UNCHANGED << inputVars, result, meshVars, model_scaling_factor, bfsVars,
                  gsVars, prepVars, Y, D, SX, current_SX, prev_SX, iter_num,
                  need_compute_residual_norms, primal_residual_sqr_norm,
                  dual_residual_sqr_norm, optimization_converge, optimization_end,
                  distVars >>

\* (a - b).squaredNorm()
DiffSqrNorm(a, b) ==
  SeqSum([k \in 1..Cardinality(DOMAIN a) |-> (a[k - 1] - b[k - 1]) * (a[k - 1] - b[k - 1])])

\* optimization_converge (lines 791-793)
Converged(need, primal, dual, primal_threshold, dual_threshold) ==
  need /\ (primal <= primal_threshold /\ dual <= dual_threshold)

\* optimization_end (lines 794-795)
OptimizationEnd(converge, n, max_iter) == converge \/ n >= max_iter

\* the two designations left as they are
SwapSXNone(cur, prev) == [current_SX |-> cur, prev_SX |-> prev]

\* std::swap(current_SX, prev_SX) (line 815)
SwapSX(cur, prev) == [current_SX |-> prev, prev_SX |-> cur]

UpdateDualVariables ==
  /\ pc = "update_dual_variables"
  /\ LET sx == SOf(S, X)
         need == ((iter_num + 1) % param.grad_solver_convergence_check_frequency = 0)
         primal == IF need THEN DiffSqrNorm(Y, sx) ELSE primal_residual_sqr_norm
         dual == IF need
                 THEN DiffSqrNorm(sx, SX[prev_SX]) * param.penalty * param.penalty
                 ELSE dual_residual_sqr_norm
         converge == Converged(need, primal, dual, primal_residual_sqr_norm_threshold,
                               dual_residual_sqr_norm_threshold)
         end == OptimizationEnd(converge, iter_num + 1, param.grad_solver_max_iter)
     IN /\ SX' = [SX EXCEPT ![current_SX] = sx]
        /\ need_compute_residual_norms' = need
        /\ primal_residual_sqr_norm' = primal
        /\ dual_residual_sqr_norm' = dual
        /\ D' = [slot \in Slots |-> D[slot] + Y[slot] - sx[slot]]
        /\ iter_num' = iter_num + 1
        /\ optimization_converge' = converge
        /\ optimization_end' = end
        /\ pc' = IF end THEN "integrate_geodesic_distance" ELSE "update_Y"
  /\ \E sw \in { SwapSX(current_SX, prev_SX) } :
        current_SX' = sw.current_SX /\ prev_SX' = sw.prev_SX
  /\ UNCHANGED << inputVars, result, meshVars, model_scaling_factor, bfsVars,
                  gsVars, prepVars, X, Y, distVars >>

\* -------------------------------------------- integrate_geodesic_distance
\* the entry of integrate_geodesic_distance (lines 687-691)
IntegrateBegin ==
  /\ pc = "integrate_geodesic_distance"
  /\ geod_dist_values' = Constant(n_vertices, 0)
  /\ integrate_segment_count' = 1
  /\ end_propagation' = FALSE
  /\ assigned' = {}
  /\ write_count' = Constant(n_vertices, 0)
  /\ pc' = "integrate_loop"
  /\ UNCHANGED << inputVars, result, meshVars, model_scaling_factor, bfsVars,
                  gsVars, prepVars, admmVars >>

\* Propagate writing the entry of the parent
PropagateToParent(dist, list, from, eidx, x, i) ==
  [dist EXCEPT ![from[i]] =
     IF eidx[i] >= 0 THEN dist[from[i]] + x[eidx[i]]
     ELSE dist[from[i]] - x[0 - (eidx[i] + 1)]]

\* Propagate with the two signs exchanged
PropagateSwapped(dist, list, from, eidx, x, i) ==
  [dist EXCEPT ![list[i]] =
     IF eidx[i] >= 0 THEN dist[from[i]] - x[eidx[i]]
     ELSE dist[from[i]] + x[0 - (eidx[i] + 1)]]

\* the assignment of BFS position i (lines 704-710)
Propagate(dist, list, from, eidx, x, i) ==
  [dist EXCEPT ![list[i]] =
     IF eidx[i] >= 0 THEN dist[from[i]] + x[eidx[i]]
     ELSE dist[from[i]] - x[0 - (eidx[i] + 1)]]

\* one turn of the parallel for over the positions of the layer; the turns
\* of a layer run in any order
IntegrateAssign ==
  /\ pc = "integrate_loop"
  /\ ~ end_propagation
  /\ \E i \in bfs_segment_addr[integrate_segment_count]
                ..(bfs_segment_addr[integrate_segment_count + 1] - 1) :
        /\ i \notin assigned
        /\ geod_dist_values' =
             Propagate(geod_dist_values, bfs_vertex_list, transition_from_vtx,
                       transition_edge_idx, X, i)
        /\ assigned' = assigned \cup {i}
        /\ write_count' = [write_count EXCEPT ![bfs_vertex_list[i]] = @ + 1]
  /\ UNCHANGED << inputVars, pc, result, meshVars, model_scaling_factor, bfsVars,
                  gsVars, prepVars, admmVars, integrate_segment_count,
                  end_propagation >>

\* the single block that ends a layer (lines 713-717)
IntegrateNextLayer ==
  /\ pc = "integrate_loop"
  /\ ~ end_propagation
  /\ \A i \in bfs_segment_addr[integrate_segment_count]
                ..(bfs_segment_addr[integrate_segment_count + 1] - 1) : i \in assigned
  /\ integrate_segment_count' = integrate_segment_count + 1
  /\ end_propagation' =
       (integrate_segment_count + 1 >= Cardinality(DOMAIN bfs_segment_addr) - 1)
  /\ assigned' = {}
  /\ UNCHANGED << inputVars, pc, result, meshVars, model_scaling_factor, bfsVars,
                  gsVars, prepVars, admmVars, geod_dist_values, write_count >>

\* the rescaling (line 722) and the return of solve()
IntegrateScale ==
  /\ pc = "integrate_loop"
  /\ end_propagation
  /\ geod_dist_values' =
       [v \in DOMAIN geod_dist_values |-> geod_dist_values[v] * model_scaling_factor]
  /\ pc' = "done"
  /\ result' = "true"
  /\ UNCHANGED << inputVars, meshVars, model_scaling_factor, bfsVars, gsVars,
                  prepVars, admmVars, integrate_segment_count, end_propagation,
                  assigned, write_count >>

\* ------------------------------------------------- undefined behaviour
(***************************************************************************)
(* After an access outside an array the build may abort, or run on and     *)
(* return; the distance vector is then whatever the run left.              *)
(***************************************************************************)
Undefined ==
  /\ pc = "undefined"
  /\ \/ pc' = "crashed" /\ result' = "crashed" /\ UNCHANGED geod_dist_values
     \/ pc' = "returned_undefined" /\ result' = "true"
        /\ geod_dist_values' \in { geod_dist_values, Constant(n_vertices, 0) }
  /\ UNCHANGED << inputVars, meshVars, model_scaling_factor, bfsVars, gsVars,
                  prepVars, admmVars, integrate_segment_count, end_propagation,
                  assigned, write_count >>

Next ==
  \/ LoadInput
  \/ NormalizeMesh
  \/ InitBfsPaths
  \/ GaussSeidelSetup
  \/ GaussSeidelStep
  \/ GaussSeidelFinish
  \/ PrepareIntegrateGeodesicDistance
  \/ ComputeIntegrableGradients
  \/ UpdateY
  \/ UpdateX
  \/ UpdateDualVariables
  \/ IntegrateBegin
  \/ IntegrateAssign
  \/ IntegrateNextLayer
  \/ IntegrateScale
  \/ Undefined

Spec == Init /\ [][Next]_vars

\* ------------------------------------------------------------ properties
Sources == param.source_vertices
NumSources == Len(param.source_vertices)

\* solve() has got past init_bfs_paths
BfsReturned ==
  pc \notin { "load_input", "failed", "normalize_mesh", "init_bfs_paths" }

\* the program ran into undefined behaviour
RanUndefined == pc \in { "undefined", "crashed", "returned_undefined" }

ValidInput == mesh # NoMesh /\ IsConnected(mesh) /\ IsDistinct(Sources)

\* the BFS layer of position i: the segment of bfs_segment_addr holding i
LayerOf(i) ==
  CHOOSE s \in 0..(Cardinality(DOMAIN bfs_segment_addr) - 2) :
     bfs_segment_addr[s] <= i /\ i < bfs_segment_addr[s + 1]

\* C1: after init_bfs_paths on a connected mesh with distinct in-range
\* sources, the traversal stayed inside its arrays, bfs_vertex_list holds
\* every vertex exactly once and no -1, and its first |sources| entries are
\* the sources in the order given.
C1_OrderIsPermutation ==
  (BfsReturned /\ ValidInput) =>
     /\ ~ RanUndefined
     /\ DOMAIN bfs_vertex_list = 0..(n_vertices - 1)
     /\ \A v \in 0..(n_vertices - 1) :
           Cardinality({ i \in 0..(n_vertices - 1) : bfs_vertex_list[i] = v }) = 1
     /\ \A i \in 0..(n_vertices - 1) : bfs_vertex_list[i] # 0 - 1
     /\ \A k \in 1..NumSources : bfs_vertex_list[k - 1] = Sources[k]

C1_Witness ==
  /\ pc = "gauss_seidel_init_gradients" /\ ValidInput
  /\ NumSources = 2 /\ n_vertices = 5
  /\ bfs_vertex_list[0] = 3 /\ bfs_vertex_list[4] = 0

\* C2: while transition_halfedge_idx is alive, every filled position
\* i >= |sources| has a transition halfedge h with to(h) = order[i] and
\* from(h) at a position of a strictly earlier layer; the positions of the
\* sources hold -1; on a connected mesh with distinct sources every position
\* i >= |sources| is filled.
C2_TransitionHalfedge ==
  (pc = "gauss_seidel_init_gradients") =>
     /\ \A i \in 0..(n_vertices - 1) :
           (i < NumSources) => transition_halfedge_idx[i] = 0 - 1
     /\ \A i \in NumSources..(n_vertices - 1) :
           (bfs_vertex_list[i] # 0 - 1) =>
              LET h == transition_halfedge_idx[i]
              IN /\ h \in 0..(NumH(mesh) - 1)
                 /\ to_vertex(mesh, h) = bfs_vertex_list[i]
                 /\ \E j \in 0..(i - 1) :
                       /\ bfs_vertex_list[j] = from_vertex(mesh, h)
                       /\ LayerOf(j) < LayerOf(i)
     /\ ValidInput =>
           \A i \in NumSources..(n_vertices - 1) : bfs_vertex_list[i] # 0 - 1

C2_Witness ==
  /\ pc = "gauss_seidel_init_gradients" /\ ValidInput
  /\ n_vertices = 5 /\ NumSources = 1
  /\ \E i \in 1..4 : LayerOf(i) = 2 /\ transition_halfedge_idx[i] % 2 = 1
  /\ \E i \in 1..4 : LayerOf(i) = 1 /\ transition_halfedge_idx[i] % 2 = 0

\* the traversal left a vertex out
BfsIncomplete ==
  \E i \in 0..(n_vertices - 1) : bfs_vertex_list[i] = 0 - 1

\* C5: when the BFS does not reach every vertex, solve() fails instead of
\* going on to the heat, ADMM and integration stages.
C5_DisconnectedReported ==
  (BfsReturned /\ BfsIncomplete) => (pc = "failed" /\ result = "false")

\* the input load_input has to refuse
EmptyOrBadSource ==
  /\ mesh_file # 0
  /\ \/ MeshFiles[mesh_file].nv = 0 \/ MeshFiles[mesh_file].faces = << >>
     \/ \E k \in 1..NumSources : Sources[k] \notin 0..(MeshFiles[mesh_file].nv - 1)

\* C6: an empty mesh or an out-of-range source makes solve() return false
\* before normalize_mesh, the BFS or any solver stage has run, and the
\* distance vector is as the constructor left it.
C6_BadInputRejected ==
  (pc # "load_input" /\ EmptyOrBadSource) =>
     /\ pc = "failed" /\ result = "false"
     /\ model_scaling_factor = 1
     /\ bfs_vertex_list = << >> /\ bfs_segment_addr = << >>
     /\ current_d = << >> /\ init_grad = << >>
     /\ X = << >> /\ Y = << >> /\ D = << >> /\ iter_num = 0
     /\ geod_dist_values = << >>

C6_Witness ==
  /\ pc = "failed" /\ result = "false"
  /\ n_vertices = 4 /\ n_faces = 2
  /\ NumSources = 2 /\ Sources[1] = 0 /\ Sources[2] = 4

\* C7: a source list with a repeated vertex makes solve() fail at once,
\* before any compute stage.
C7_DuplicateRejected ==
  (pc # "load_input" /\ mesh_file # 0 /\ ~ IsDistinct(Sources)) =>
     (pc = "failed" /\ result = "false")

\* ---------------------------------------------------- the later stages
\* prepare_integrate_geodesic_distance has returned on a defined run
Prepared ==
  pc \in { "compute_integrable_gradients", "update_Y", "update_X",
           "update_dual_variables", "integrate_geodesic_distance",
           "integrate_loop", "done" }

\* the slots edges_Y_index lists for edge e
EdgeSlots(e) == { edges_Y_index[j][e] : j \in 0..1 } \ { 0 - 1 }

\* the number of slots the X initialisation and update_X divide by
SlotCount(e) == Cardinality({ j \in 0..1 : edges_Y_index[j][e] >= 0 })

IsBoundaryEdge(m, e) ==
  is_boundary(m, halfedge(e, 0)) \/ is_boundary(m, halfedge(e, 1))

\* C8: after prepare_integrate_geodesic_distance, the non-negative entries
\* of edges_Y_index[0..1][e] are exactly the slots 3f+k with S[3f+k] = e,
\* none twice; there is 1 of them for a boundary edge and 2 for an
\* interior edge, so the divisor of X is never 0.
C8_EdgeSlotsExact ==
  Prepared =>
    \A m \in { ReadMesh(mesh_file) } : \A e \in 0..(n_edges - 1) :
       /\ EdgeSlots(e) = { slot \in Slots : S[slot] = e }
       /\ Cardinality(EdgeSlots(e)) = SlotCount(e)
       /\ SlotCount(e) = IF IsBoundaryEdge(m, e) THEN 1 ELSE 2
       /\ SlotCount(e) # 0

C8_Witness ==
  /\ pc = "update_X" /\ n_vertices = 5 /\ n_faces = 3
  /\ \E e \in 0..(n_edges - 1) : SlotCount(e) = 1
  /\ \E e \in 0..(n_edges - 1) :
        SlotCount(e) = 2 /\ edges_Y_index[0][e] \div 3 # edges_Y_index[1][e] \div 3

\* C3: during and after integrate_geodesic_distance the distance of every
\* source vertex is 0, whatever X holds.
C3_SourcesStayZero ==
  (pc \in { "integrate_loop", "done" }) =>
     \A k \in 1..NumSources : geod_dist_values[Sources[k]] = 0

C3_Witness ==
  /\ pc = "done" /\ result = "true" /\ NumSources = 2
  /\ \E e \in 0..(n_edges - 1) : X[e] # 0
  /\ \A i \in NumSources..(n_vertices - 1) :
        geod_dist_values[bfs_vertex_list[i]] # 0
  /\ \A k \in 1..NumSources : geod_dist_values[Sources[k]] = 0

\* the integration loop has ended and the distances are not rescaled yet
Integrated == pc = "integrate_loop" /\ end_propagation

\* the parent halfedge of BFS position i is halfedge side of edge e: it runs
\* from transition_from_vtx[i] to bfs_vertex_list[i]
ParentHalfedgeIs(m, i, e, side) ==
  /\ e \in 0..(n_edges - 1)
  /\ from_vertex(m, halfedge(e, side)) = transition_from_vtx[i]
  /\ to_vertex(m, halfedge(e, side)) = bfs_vertex_list[i]

\* C4 as the code has it: with base = dist[transition_from[i]], tree
\* integration sets dist[order[i]] = base + X[e] when transition_edge_idx[i]
\* = e >= 0 (the parent halfedge is halfedge 1 of its edge) and
\* dist[order[i]] = base - X[e'], e' = -(transition_edge_idx[i]) - 1, when
\* transition_edge_idx[i] < 0 (the parent halfedge is halfedge 0).
C4_TreeIntegration ==
  Integrated =>
    \A m \in { ReadMesh(mesh_file) } : \A i \in NumSources..(n_vertices - 1) :
       LET base == geod_dist_values[transition_from_vtx[i]]
           e == transition_edge_idx[i]
       IN IF e >= 0
          THEN /\ ParentHalfedgeIs(m, i, e, 1)
               /\ geod_dist_values[bfs_vertex_list[i]] = base + X[e]
          ELSE /\ ParentHalfedgeIs(m, i, 0 - e - 1, 0)
               /\ geod_dist_values[bfs_vertex_list[i]] = base - X[0 - e - 1]

\* C4 as stated: base - X[e] when transition_edge_idx[i] = e >= 0, and
\* base + X[e'] when transition_edge_idx[i] < 0.
C4_TreeIntegrationAsStated ==
  Integrated =>
    \A m \in { ReadMesh(mesh_file) } : \A i \in NumSources..(n_vertices - 1) :
       LET base == geod_dist_values[transition_from_vtx[i]]
           e == transition_edge_idx[i]
       IN IF e >= 0
          THEN /\ ParentHalfedgeIs(m, i, e, 1)
               /\ geod_dist_values[bfs_vertex_list[i]] = base - X[e]
          ELSE /\ ParentHalfedgeIs(m, i, 0 - e - 1, 0)
               /\ geod_dist_values[bfs_vertex_list[i]] = base + X[0 - e - 1]

C4_Witness ==
  /\ Integrated /\ n_vertices = 5 /\ NumSources = 1
  /\ \E i \in 1..4 : transition_edge_idx[i] >= 0 /\ X[transition_edge_idx[i]] # 0
                     /\ LayerOf(i) = 2
  /\ \E i \in 1..4 : transition_edge_idx[i] < 0
                     /\ X[0 - transition_edge_idx[i] - 1] # 0

\* the Gauss-Seidel loop has been left
GaussSeidelEnded == pc = "gauss_seidel_loop" /\ end_gs_loop

\* the stated stopping rule at outer-iteration count g: the iteration limit
\* is reached, or a check is due after g >= 1 iterations and the residual
\* norm is at most eps
HeatStopAt(g) ==
  \/ g = param.heat_solver_max_iter
  \/ /\ g >= 1
     /\ g % param.heat_solver_convergence_check_frequency = 0
     /\ residual_history[g + 1]

\* the loop is between two outer iterations
AtOuterBoundary ==
  /\ segment_count = 0
  /\ \A s \in DOMAIN layer_sweeps : layer_sweeps[s] = gs_iter

\* C9: the Gauss-Seidel loop makes at most heat_solver_max_iter outer
\* iterations and stops only between two outer iterations, at the first
\* count g with g = heat_solver_max_iter, or g a multiple of the check
\* frequency and the residual norm at most eps.
C9_StopsAtOuterBoundary ==
  /\ GaussSeidelEnded =>
       /\ gs_iter <= param.heat_solver_max_iter
       /\ AtOuterBoundary
       /\ HeatStopAt(gs_iter)
       /\ \A g \in 0..(gs_iter - 1) : ~ HeatStopAt(g)
  /\ (pc = "gauss_seidel_loop" /\ ~ end_gs_loop /\ AtOuterBoundary) =>
       ~ HeatStopAt(gs_iter)

\* the rule of C9 when heat_solver_max_iter is at least 1
GaussSeidelStopsFromOne ==
  param.heat_solver_max_iter >= 1 => C9_StopsAtOuterBoundary

\* update_dual_variables has just returned from ADMM iteration iter_num
AfterIteration ==
  \/ pc = "update_Y" /\ iter_num >= 1
  \/ pc = "integrate_geodesic_distance"

\* the residual norms of the iteration that has just returned; the swap has
\* made prev_SX the buffer this iteration wrote
PrimalNow == DiffSqrNorm(Y, SX[prev_SX])
DualNow == DiffSqrNorm(SX[prev_SX], SX[current_SX]) * param.penalty * param.penalty

\* C10: the ADMM loop makes at most grad_solver_max_iter iterations and
\* ends after iteration k exactly when k = grad_solver_max_iter or
\* convergence was detected at k; convergence is detected iff k is a
\* multiple of the check frequency and the primal and the dual squared
\* norm of iteration k are both at most grad_solver_eps^2.
C10_AdmmTermination ==
  /\ (pc \in { "update_Y", "update_X", "update_dual_variables" }) =>
       iter_num < param.grad_solver_max_iter
  /\ AfterIteration =>
       /\ iter_num <= param.grad_solver_max_iter
       /\ (pc = "integrate_geodesic_distance") <=>
            (iter_num = param.grad_solver_max_iter \/ optimization_converge)
       /\ optimization_converge <=>
            /\ iter_num % param.grad_solver_convergence_check_frequency = 0
            /\ PrimalNow <= param.grad_solver_eps * param.grad_solver_eps
            /\ DualNow <= param.grad_solver_eps * param.grad_solver_eps

\* the rule of C10 when grad_solver_max_iter is at least 1
AdmmTerminationFromOne ==
  param.grad_solver_max_iter >= 1 => C10_AdmmTermination

\* the buffer named b holds S(x): entry 3f+k is x of the edge S[3f+k]
HoldsSOf(b, x) ==
  /\ DOMAIN SX[b] = Slots
  /\ \A f \in 0..(n_faces - 1) : \A k \in 0..2 : SX[b][3 * f + k] = x[S[3 * f + k]]

\* C11: immediately before every update_Y, the first included, the buffer
\* designated prev_SX holds X[S[3f+k]] at every slot 3f+k for the current
\* X; update_dual_variables writes S(X) into the buffer designated
\* current_SX, leaves the other buffer, which holds S(X) of the previous
\* iteration, as it is, computes the residual norms from the two, and then
\* exchanges the two designations.
C11_PrevSXHoldsSX ==
  /\ [](pc = "update_Y" => (prev_SX # current_SX /\ HoldsSOf(prev_SX, X)))
  /\ [][ /\ pc = "update_X" => SX'[prev_SX'] = [slot \in Slots |-> X[S[slot]]]
         /\ pc = "update_dual_variables" =>
              /\ SX'[current_SX] = [slot \in Slots |-> X[S[slot]]]
              /\ SX'[prev_SX] = SX[prev_SX]
              /\ current_SX' = prev_SX /\ prev_SX' = current_SX
              /\ need_compute_residual_norms' =>
                   /\ primal_residual_sqr_norm' = DiffSqrNorm(Y, SX'[current_SX])
                   /\ dual_residual_sqr_norm' =
                        DiffSqrNorm(SX'[current_SX], SX[prev_SX])
                          * param.penalty * param.penalty ]_vars

C11_Witness ==
  /\ pc = "update_Y" /\ iter_num = 1
  /\ prev_SX = "SX1" /\ HoldsSOf(prev_SX, X)
  /\ SX[current_SX] # SX[prev_SX]
  /\ \E slot \in Slots : SX[prev_SX][slot] # 0

\* the positions of the layer the integration loop is at
CurrentLayer ==
  bfs_segment_addr[integrate_segment_count]
    ..(bfs_segment_addr[integrate_segment_count + 1] - 1)

\* the vertices the current layer step writes
CurrentLayerVertices == { bfs_vertex_list[i] : i \in CurrentLayer }

\* the entry of vertex p will not be written any more: p is a source, or it
\* was written in an earlier layer step
IsFinal(p) ==
  /\ p \notin CurrentLayerVertices
  /\ \/ p \in Range(Sources) /\ write_count[p] = 0
     \/ p \notin Range(Sources) /\ write_count[p] = 1

\* C12: in integrate_geodesic_distance, in every interleaving of the
\* assignments of a layer, every non-source distance is written exactly
\* once and no source distance is written; the entry an assignment reads is
\* the one of a source or of a vertex written in an earlier layer step,
\* never one written in the same layer step, and it is not written again.
C12_IntegrationOrderFree ==
  /\ [](pc = "integrate_loop" =>
          /\ \A v \in 0..(n_vertices - 1) : write_count[v] <= 1
          /\ \A k \in 1..NumSources : write_count[Sources[k]] = 0
          /\ end_propagation =>
               \A v \in 0..(n_vertices - 1) :
                  v \notin Range(Sources) => write_count[v] = 1
          /\ ~ end_propagation =>
               \A i \in CurrentLayer : IsFinal(transition_from_vtx[i]))
  /\ [][ (pc = "integrate_loop" /\ assigned' # assigned /\ assigned' # {}) =>
            \A i \in assigned' \ assigned :
               /\ IsFinal(transition_from_vtx[i])
               /\ geod_dist_values'[transition_from_vtx[i]]
                    = geod_dist_values[transition_from_vtx[i]]
               /\ \A v \in 0..(n_vertices - 1) :
                     v # bfs_vertex_list[i] =>
                        geod_dist_values'[v] = geod_dist_values[v] ]_vars

\* two positions of a layer of three are assigned, the last one first
C12_Witness ==
  /\ pc = "integrate_loop" /\ ~ end_propagation
  /\ Cardinality(CurrentLayer) = 3 /\ Cardinality(assigned) = 2
  /\ bfs_segment_addr[integrate_segment_count] \notin assigned
  /\ \E i \in assigned : geod_dist_values[bfs_vertex_list[i]] # 0

\* a layer step of the Gauss-Seidel loop is under way
InLayerStep == pc = "gauss_seidel_loop" /\ ~ end_gs_loop

\* the new heat value of position i of the current layer, from the heat
\* values as they were when the layer step began
HeatFromBefore(i) ==
  NewHeatValue(bfs_laplacian_coef, bfs_laplacian_coef_addr, init_source_val,
               heat_before, segment_count, i)

\* the heat values once the positions in done are written back
HeatAfter(done) ==
  [v \in 0..(n_vertices - 1) |->
     IF \E i \in done : bfs_vertex_list[i] = v
     THEN HeatFromBefore(CHOOSE i \in done : bfs_vertex_list[i] = v)
     ELSE heat_before[v]]

\* C13: in a Gauss-Seidel layer step, in every interleaving, every new value
\* in the scratch buffer is computed from the heat values as they were
\* before the step, neighbours of the same layer included; the write-back
\* starts only when every new value of the layer is computed, and writes
\* pairwise distinct vertices, so the heat values after the step are the
\* same in every order; the layers follow each other in BFS order.
C13_LayerStepOrderFree ==
  /\ [](InLayerStep =>
          /\ \A i, j \in SweepLayer : i # j => bfs_vertex_list[i] # bfs_vertex_list[j]
          /\ gs_computed \subseteq SweepLayer /\ gs_written \subseteq SweepLayer
          /\ gs_written # {} => gs_computed = SweepLayer
          /\ \A i \in gs_computed :
                temp_d[i - bfs_segment_addr[segment_count]] = HeatFromBefore(i)
          /\ current_d = HeatAfter(gs_written))
  /\ [][ (InLayerStep /\ layer_sweeps' # layer_sweeps) =>
            /\ gs_computed = SweepLayer /\ gs_written = SweepLayer
            /\ current_d' = HeatAfter(SweepLayer)
            /\ segment_count' = (segment_count + 1) % n_segments
            /\ gs_iter' = IF segment_count + 1 = n_segments
                          THEN gs_iter + 1 ELSE gs_iter ]_vars

\* position j of the layer is a neighbour of position i of the same layer
SameLayerNeighbour(i, j) ==
  \E t \in bfs_laplacian_coef_addr[i]..(bfs_laplacian_coef_addr[i + 1] - 2) :
     bfs_laplacian_coef[t][1] = bfs_vertex_list[j]

\* a layer of two adjacent vertices is written back, and a value computed in
\* place from the new value of the neighbour would have differed
C13_Witness ==
  /\ InLayerStep /\ gs_written = SweepLayer /\ segment_count >= 1
  /\ \E i, j \in SweepLayer :
        /\ i # j /\ SameLayerNeighbour(i, j)
        /\ current_d[bfs_vertex_list[j]] # heat_before[bfs_vertex_list[j]]
        /\ NewHeatValue(bfs_laplacian_coef, bfs_laplacian_coef_addr,
                        init_source_val, current_d, segment_count, i)
             # HeatFromBefore(i)

\* C14: the sweep and compute_heatflow_residual give the source term to the
\* same BFS positions, and these are the positions whose vertex is a
\* source: layer 0 is the position range [0, |sources|).
C14_SourceTermPositions ==
  pc = "gauss_seidel_loop" =>
    /\ init_source_val > 0
    /\ bfs_segment_addr[0] = 0 /\ bfs_segment_addr[1] = NumSources
    /\ ~ end_gs_loop => \A i \in SweepLayer : LayerOf(i) = segment_count
    /\ \A i \in 0..(n_vertices - 1) :
          /\ SweepSourceTerm(init_source_val, LayerOf(i))
               = ResidualSourceTerm(init_source_val, NumSources, i)
          /\ (SweepSourceTerm(init_source_val, LayerOf(i)) = init_source_val)
               <=> (bfs_vertex_list[i] \in Range(Sources))
          /\ (LayerOf(i) = 0) <=> (i < NumSources)

C14_Witness ==
  /\ InLayerStep /\ NumSources = 2 /\ n_vertices = 5
  /\ segment_count = 1 /\ gs_computed = SweepLayer /\ SweepLayer # {}
  /\ \A i \in SweepLayer :
        /\ i >= NumSources
        /\ ResidualSourceTerm(init_source_val, NumSources, i) = 0
  /\ ResidualSourceTerm(init_source_val, NumSources, 1) = init_source_val
====
